---- MODULE Spec2Model ----
(***************************************************************************)
(* Model of the two smoke-test scripts test-chat-api.py and                *)
(* test-imessage-conversion.py.  Each builds a payload dict, POSTs         *)
(* json.dumps(payload) to a fixed URL inside a try block, prints the       *)
(* status code and the body, and prints "Error: <e>" from an               *)
(* `except Exception` clause that encloses the POST and both prints.       *)
(*                                                                         *)
(* Text is modelled as a sequence of tokens.  A token is one character     *)
(* that JSON or the terminal treats specially (quote, backslash, a         *)
(* non-ASCII character) or a run of plain ASCII characters.                *)
(***************************************************************************)
EXTENDS Integers, Sequences, FiniteSets, TLC

VARIABLES script, payload, server, stdoutEncoding,
          pc, requests, response, e, stdout, exitCode

vars == <<script, payload, server, stdoutEncoding,
          pc, requests, response, e, stdout, exitCode>>

\* no response bound yet / no exception raised yet
NoResponse == [received |-> FALSE]
NoException == [raised |-> FALSE]

(* ---------------- bounds of the payloads explored by JsonSpec ---------- *)
MaxStrLen == 2

(* ---------------- characters ------------------------------------------- *)
QUOTE == "\""
BACKSLASH == "\\"
EACUTE == "U+00E9"
EMOJI == "U+1F600"
REPLACEMENT == "U+FFFD"

PayloadAlphabet == {"a", QUOTE, BACKSLASH, EACUTE}

(* ---------------- the scripts' constants ------------------------------- *)
Scripts == {"test-chat-api.py", "test-imessage-conversion.py"}

url == "http://localhost:5130/api/chat"

\* mutant: the headers dict without the content type
headersWithoutContentType == ("Accept" :> "application/json")

headers == ("Content-Type" :> "application/json")

\* A dict is a sequence of <<key, value>> pairs with distinct keys, in
\* insertion order; keys and values are token sequences.
ChatPayload ==
  << << <<"userId">>, <<"user-123">> >>,
     << <<"message">>, <<"Hello, this is a test message to verify IMessage conversion">> >>,
     << <<"systemPrompt">>, <<"You are a helpful assistant.">> >> >>

IMessagePayload ==
  << << <<"message">>, <<"Hello, this is a test message to verify IMessage conversion">> >>,
     << <<"conversationId">>, <<"test-conversation-456">> >> >>

PayloadOf(s) == IF s = "test-chat-api.py" THEN ChatPayload ELSE IMessagePayload

(* ---------------- dict helpers ----------------------------------------- *)
Keys(d) == [i \in DOMAIN d |-> d[i][1]]

KeySet(d) == {d[i][1] : i \in DOMAIN d}

Lookup(d, k) == d[CHOOSE i \in DOMAIN d : d[i][1] = k][2]

\* dict.__eq__: same key set, same value for every key (order is ignored)
DictEq(d1, d2) ==
  /\ KeySet(d1) = KeySet(d2)
  /\ \A k \in KeySet(d1) : Lookup(d1, k) = Lookup(d2, k)

\* d[k] = v: an existing key keeps its position, a new key goes last
DictSet(d, k, v) ==
  IF k \in KeySet(d)
  THEN [i \in DOMAIN d |-> IF d[i][1] = k THEN <<k, v>> ELSE d[i]]
  ELSE Append(d, <<k, v>>)

(* ---------------- json.dumps (ensure_ascii=True, default separators) --- *)
\* mutant: the backslash itself is not escaped
EscapeCharQuoteOnly(c) ==
  IF c = QUOTE THEN <<BACKSLASH, QUOTE>>
  ELSE IF c = EACUTE THEN <<BACKSLASH, "u", "0", "0", "e", "9">>
  ELSE <<c>>

EscapeChar(c) ==
  IF c = QUOTE THEN <<BACKSLASH, QUOTE>>
  ELSE IF c = BACKSLASH THEN <<BACKSLASH, BACKSLASH>>
  ELSE IF c = EACUTE THEN <<BACKSLASH, "u", "0", "0", "e", "9">>
  ELSE <<c>>

RECURSIVE EscapeAll(_)
EscapeAll(s) ==
  IF s = << >> THEN << >> ELSE EscapeChar(Head(s)) \o EscapeAll(Tail(s))

encode_basestring_ascii(s) == <<QUOTE>> \o EscapeAll(s) \o <<QUOTE>>

RECURSIVE EncodeItems(_)
EncodeItems(d) ==
  IF d = << >> THEN << >>
  ELSE encode_basestring_ascii(d[1][1]) \o <<":", " ">>
         \o encode_basestring_ascii(d[1][2])
         \o (IF Len(d) > 1 THEN <<",", " ">> ELSE << >>)
         \o EncodeItems(Tail(d))

json_dumps(d) == <<"{">> \o EncodeItems(d) \o <<"}">>

(* ---------------- json.loads, for objects whose values are strings ----- *)
ParseError == [ok |-> FALSE]

HexChar(h) == IF h = <<"0", "0", "e", "9">> THEN EACUTE ELSE REPLACEMENT

\* py_scanstring: s[i] is the first token after the opening quote;
\* returns the decoded string and the index after the closing quote
RECURSIVE scanstring(_, _, _)
scanstring(s, i, acc) ==
  IF i > Len(s) THEN ParseError
  ELSE IF s[i] = QUOTE THEN [ok |-> TRUE, val |-> acc, end |-> i + 1]
  ELSE IF s[i] = BACKSLASH THEN
    IF i + 1 > Len(s) THEN ParseError
    ELSE IF s[i + 1] = QUOTE THEN scanstring(s, i + 2, Append(acc, QUOTE))
    ELSE IF s[i + 1] = BACKSLASH THEN scanstring(s, i + 2, Append(acc, BACKSLASH))
    ELSE IF s[i + 1] = "u" THEN
      IF i + 5 > Len(s) THEN ParseError
      ELSE scanstring(s, i + 6, Append(acc, HexChar(SubSeq(s, i + 2, i + 5))))
    ELSE ParseError
  ELSE scanstring(s, i + 1, Append(acc, s[i]))

RECURSIVE SkipWs(_, _)
SkipWs(s, i) == IF i <= Len(s) /\ s[i] = " " THEN SkipWs(s, i + 1) ELSE i

\* JSONObject's loop: s[i] is where the next key's opening quote must be
RECURSIVE ParseMembers(_, _, _)
ParseMembers(s, i, d) ==
  IF i > Len(s) \/ s[i] # QUOTE THEN ParseError
  ELSE LET k == scanstring(s, i + 1, << >>) IN
    IF ~k.ok THEN ParseError
    ELSE LET c == SkipWs(s, k.end) IN
      IF c > Len(s) \/ s[c] # ":" THEN ParseError
      ELSE LET q == SkipWs(s, c + 1) IN
        IF q > Len(s) \/ s[q] # QUOTE THEN ParseError
        ELSE LET v == scanstring(s, q + 1, << >>) IN
          IF ~v.ok THEN ParseError
          ELSE LET n == SkipWs(s, v.end)
                   d2 == DictSet(d, k.val, v.val) IN
            IF n > Len(s) THEN ParseError
            ELSE IF s[n] = "}" THEN [ok |-> TRUE, val |-> d2, end |-> n + 1]
            ELSE IF s[n] = "," THEN ParseMembers(s, SkipWs(s, n + 1), d2)
            ELSE ParseError

json_loads(s) ==
  LET b == SkipWs(s, 1) IN
    IF b > Len(s) \/ s[b] # "{" THEN ParseError
    ELSE LET m == SkipWs(s, b + 1)
             r == IF m <= Len(s) /\ s[m] = "}"
                  THEN [ok |-> TRUE, val |-> << >>, end |-> m + 1]
                  ELSE ParseMembers(s, m, << >>) IN
      IF r.ok /\ SkipWs(s, r.end) = Len(s) + 1 THEN [ok |-> TRUE, val |-> r.val]
      ELSE ParseError

(* ---------------- f-string formatting and print ------------------------ *)
Digit(d) == <<"0", "1", "2", "3", "4", "5", "6", "7", "8", "9">>[d + 1]

\* str(n) for n >= 0
RECURSIVE str_int(_)
str_int(n) == IF n < 10 THEN <<Digit(n)>> ELSE str_int(n \div 10) \o <<Digit(n % 10)>>

StatusLine(status_code) == <<"Status Code: ">> \o str_int(status_code)

ResponseLine(text) == <<"Response: ">> \o text

ErrorLine(msg) == <<"Error: ">> \o msg

\* sys.stdout encodes strictly: a character outside the terminal's code page
\* makes print raise UnicodeEncodeError and write nothing of the line
Encodable(line, encoding) ==
  encoding = "utf-8" \/ \A i \in DOMAIN line : line[i] # EMOJI

(* ---------------- exceptions ------------------------------------------- *)
Mro(type) ==
  IF type \in {"ConnectionError", "ChunkedEncodingError"}
  THEN {type, "RequestException", "OSError", "Exception", "BaseException"}
  ELSE IF type = "UnicodeEncodeError"
  THEN {type, "UnicodeError", "ValueError", "Exception", "BaseException"}
  ELSE {type, "BaseException"}

\* mutant: except requests.ConnectionError as e
CatchesConnectionError(type) == "ConnectionError" \in Mro(type)

\* except Exception as e
Catches(type) == "Exception" \in Mro(type)

UnicodeEncodeError ==
  [raised |-> TRUE, type |-> "UnicodeEncodeError", at |-> "print",
   msg |-> <<"'charmap' codec can't encode character '\\U0001f600'">>]

(* ---------------- the environment -------------------------------------- *)
Statuses == {200, 201, 400, 404, 500, 503}

Bodies == { << >>, <<"{\"reply\":\"ok\"}">>, <<"caf", EACUTE>>, <<"hi ", EMOJI>> }

Failures == {"refused", "dns", "os_timeout", "reset", "truncated"}

ServerBehaviours ==
  [kind : {"respond"}, status_code : Statuses, text : Bodies]
    \cup [kind : {"fail"}, error : Failures]
    \cup {[kind |-> "hang"]}

Encodings == {"utf-8", "cp1252"}

\* the exception requests.post raises for a transport failure
RaisedFor(error) ==
  [raised |-> TRUE,
   type |-> IF error = "truncated" THEN "ChunkedEncodingError" ELSE "ConnectionError",
   at |-> "post",
   msg |-> IF error = "refused" THEN <<"Connection refused">>
           ELSE IF error = "dns" THEN <<"Name or service not known">>
           ELSE IF error = "os_timeout" THEN <<"Connection timed out">>
           ELSE IF error = "reset" THEN <<"Connection aborted">>
           ELSE <<"Connection broken: IncompleteRead">>]

(* ---------------- the run ---------------------------------------------- *)
Init ==
  /\ script \in Scripts
  /\ payload = PayloadOf(script)
  /\ server \in ServerBehaviours
  /\ stdoutEncoding \in Encodings
  /\ pc = "start"
  /\ requests = << >>
  /\ response = NoResponse
  /\ e = NoException
  /\ stdout = << >>
  /\ exitCode = -1   \* still running

\* mutant: a userId entry is put into the payload on the way out
PostInjectingUserId ==
  /\ pc = "start"
  /\ requests' = Append(requests,
       [method |-> "POST", url |-> url, headers |-> headers,
        data |-> json_dumps(DictSet(payload, <<"userId">>, <<"user-123">>))])
  /\ pc' = "in_flight"
  /\ UNCHANGED <<script, payload, server, stdoutEncoding, response, e, stdout, exitCode>>

\* requests.post(url, data=json.dumps(payload), headers=headers): the request
\* goes out and the process blocks
Post ==
  /\ pc = "start"
  /\ requests' = Append(requests,
       [method |-> "POST", url |-> url, headers |-> headers,
        data |-> json_dumps(payload)])
  /\ pc' = "in_flight"
  /\ UNCHANGED <<script, payload, server, stdoutEncoding, response, e, stdout, exitCode>>

\* the call returns a Response, whatever its status; no timeout is passed,
\* so nothing happens while the server stays silent
PostReturns ==
  /\ pc = "in_flight"
  /\ server.kind = "respond"
  /\ response' = [received |-> TRUE, status_code |-> server.status_code,
                   text |-> server.text]
  /\ pc' = "print_status"
  /\ UNCHANGED <<script, payload, server, stdoutEncoding, requests, e, stdout, exitCode>>

PostRaises ==
  /\ pc = "in_flight"
  /\ server.kind = "fail"
  /\ e' = RaisedFor(server.error)
  /\ pc' = "except"
  /\ UNCHANGED <<script, payload, server, stdoutEncoding, requests, response, stdout, exitCode>>

\* mutant: the status line is not printed
PrintStatusSkipped ==
  /\ pc = "print_status"
  /\ pc' = "print_response"
  /\ UNCHANGED <<script, payload, server, stdoutEncoding, requests, response, e,
                 stdout, exitCode>>

\* print(f"Status Code: {response.status_code}")
PrintStatus ==
  /\ pc = "print_status"
  /\ LET line == StatusLine(response.status_code) IN
       IF Encodable(line, stdoutEncoding)
       THEN /\ stdout' = Append(stdout, line)
            /\ pc' = "print_response"
            /\ e' = e
       ELSE /\ e' = UnicodeEncodeError
            /\ pc' = "except"
            /\ stdout' = stdout
  /\ UNCHANGED <<script, payload, server, stdoutEncoding, requests, response, exitCode>>

\* print(f"Response: {response.text}"), the last statement of the try body
PrintResponse ==
  /\ pc = "print_response"
  /\ LET line == ResponseLine(response.text) IN
       IF Encodable(line, stdoutEncoding)
       THEN /\ stdout' = Append(stdout, line)
            /\ pc' = "terminated"
            /\ exitCode' = 0
            /\ e' = e
       ELSE /\ e' = UnicodeEncodeError
            /\ pc' = "except"
            /\ stdout' = stdout
            /\ exitCode' = exitCode
  /\ UNCHANGED <<script, payload, server, stdoutEncoding, requests, response>>

\* mutant: the handler tries the request again
ExceptHandlerRetry ==
  /\ pc = "except"
  /\ stdout' = Append(stdout, ErrorLine(e.msg))
  /\ pc' = "start"
  /\ UNCHANGED <<script, payload, server, stdoutEncoding, requests, response, e, exitCode>>

\* mutant: the handler prints and then calls sys.exit(1)
ExceptHandlerExit1 ==
  /\ pc = "except"
  /\ stdout' = Append(stdout, ErrorLine(e.msg))
  /\ exitCode' = 1
  /\ pc' = "terminated"
  /\ UNCHANGED <<script, payload, server, stdoutEncoding, requests, response, e>>

\* mutant: the handler re-raises without printing
ExceptHandlerReraise ==
  /\ pc = "except"
  /\ exitCode' = 1
  /\ pc' = "terminated"
  /\ UNCHANGED <<script, payload, server, stdoutEncoding, requests, response, e, stdout>>

\* except Exception as e: print(f"Error: {e}"); then the script ends.
\* An exception the clause does not catch, or one raised inside it, leaves
\* the process with a traceback and exit status 1.
ExceptHandler ==
  /\ pc = "except"
  /\ LET line == ErrorLine(e.msg) IN
       IF Catches(e.type) /\ Encodable(line, stdoutEncoding)
       THEN /\ stdout' = Append(stdout, line)
            /\ exitCode' = 0
       ELSE /\ stdout' = stdout
            /\ exitCode' = 1
  /\ pc' = "terminated"
  /\ UNCHANGED <<script, payload, server, stdoutEncoding, requests, response, e>>

Next == Post \/ PostReturns \/ PostRaises \/ PrintStatus \/ PrintResponse \/ ExceptHandler

Spec == Init /\ [][Next]_vars

\* the interpreter keeps executing the script's next statement
FairSpec == Spec /\ WF_vars(Next)

(* ---------------- json.dumps on arbitrary str -> str dicts ------------- *)
RECURSIVE Strings(_)
Strings(n) ==
  IF n = 0 THEN { << >> }
  ELSE LET shorter == Strings(n - 1) IN
    shorter \cup {Append(t, c) : t \in shorter, c \in PayloadAlphabet}

KeyStrings == { << >> } \cup {<<c>> : c \in PayloadAlphabet}

Payloads ==
  LET V == Strings(MaxStrLen) IN
    { << >> }
      \cup { << <<k, v>> >> : k \in KeyStrings, v \in V }
      \cup { d \in { << <<k1, v1>>, <<k2, v2>> >> :
                       k1 \in KeyStrings, k2 \in KeyStrings, v1 \in V, v2 \in V } :
               d[1][1] # d[2][1] }

JsonInit ==
  /\ script \in Scripts
  /\ payload \in Payloads
  /\ server = [kind |-> "hang"]
  /\ stdoutEncoding = "utf-8"
  /\ pc = "start"
  /\ requests = << >>
  /\ response = NoResponse
  /\ e = NoException
  /\ stdout = << >>
  /\ exitCode = -1   \* still running

JsonSpec == JsonInit /\ [][Post]_vars

(* ======================= properties ==================================== *)
Terminated == pc = "terminated"

PostFailed == e.raised /\ e.at = "post"

IsStatusLine(l) == l # << >> /\ Head(l) = "Status Code: "

IsResponseLine(l) == l # << >> /\ Head(l) = "Response: "

IsErrorLine(l) == l # << >> /\ Head(l) = "Error: "

DigitValue(c) == CHOOSE d \in 0..9 : Digit(d) = c

\* int(s) for a non-empty run of decimal digits
RECURSIVE int_of(_)
int_of(s) ==
  IF Len(s) = 1 THEN DigitValue(s[1])
  ELSE 10 * int_of(SubSeq(s, 1, Len(s) - 1)) + DigitValue(s[Len(s)])

AllDigits(s) == s # << >> /\ \A i \in DOMAIN s : \E d \in 0..9 : Digit(d) = s[i]

\* C1: when requests.post raises a transport failure, the run ends with a
\* line beginning "Error:" on stdout and no exception leaves the process.
C1_TransportFailurePrintsError ==
  (Terminated /\ PostFailed) =>
    /\ stdout # << >>
    /\ IsErrorLine(stdout[Len(stdout)])
    /\ exitCode # 1

C1_Witness ==
  /\ Terminated /\ PostFailed
  /\ e.type = "ChunkedEncodingError"
  /\ script = "test-imessage-conversion.py"

\* C2 (as stated): for every response, whatever its status, the run prints
\* "Status Code: <s>" with the response's status, then "Response: <b>" with
\* the body unmodified, and prints no "Error:" line.
C2_EveryResponsePrinted ==
  (Terminated /\ response.received) =>
    /\ Len(stdout) = 2
    /\ IsStatusLine(stdout[1])
    /\ AllDigits(Tail(stdout[1]))
    /\ int_of(Tail(stdout[1])) = server.status_code
    /\ IsResponseLine(stdout[2])
    /\ Tail(stdout[2]) = server.text
    /\ \A i \in DOMAIN stdout : ~IsErrorLine(stdout[i])

\* C3 (as stated): the stdout of a terminated run is either the two lines
\* "Status Code: <int>", "Response: <text>" or the single line
\* "Error: <description>"; never a mix, never empty.
C3_OutputShape ==
  Terminated =>
    \/ /\ Len(stdout) = 2
       /\ IsStatusLine(stdout[1]) /\ AllDigits(Tail(stdout[1]))
       /\ IsResponseLine(stdout[2])
    \/ /\ Len(stdout) = 1
       /\ IsErrorLine(stdout[1])

\* C4 (as stated): every run eventually terminates, for every server
\* behaviour, including a server that never answers.
C4_AlwaysTerminates == <>Terminated

\* C4 (amended): a run whose server answers or whose transport fails
\* eventually terminates with a "Response:" or an "Error:" line as its last
\* output; a run whose server never answers stays in flight.
C4_TerminatesWhenAnswered ==
  /\ (pc = "in_flight" /\ server.kind # "hang")
       ~> (/\ Terminated
           /\ stdout # << >>
           /\ \/ IsResponseLine(stdout[Len(stdout)])
              \/ IsErrorLine(stdout[Len(stdout)]))
  /\ [][(pc = "in_flight" /\ server.kind = "hang") => pc' = "in_flight"]_vars

C4_Witness ==
  /\ Terminated
  /\ server.kind = "respond" /\ server.status_code = 503
  /\ Len(requests) = 1

C6_RoundTrip ==
  \A i \in DOMAIN requests :
    LET r == json_loads(requests[i].data) IN
      r.ok /\ DictEq(r.val, payload)

C6_Witness ==
  /\ Len(requests) = 1
  /\ payload = << << <<EACUTE>>, <<BACKSLASH, QUOTE>> >>, << <<BACKSLASH>>, << >> >> >>

\* C7: the body of test-imessage-conversion.py has exactly the keys message,
\* conversationId in that order, that of test-chat-api.py exactly userId,
\* message, systemPrompt, each with the value the payload was built with.
C7_BodyKeys ==
  \A i \in DOMAIN requests :
    LET r == json_loads(requests[i].data) IN
      /\ r.ok
      /\ Keys(r.val) = IF script = "test-imessage-conversion.py"
                       THEN << <<"message">>, <<"conversationId">> >>
                       ELSE << <<"userId">>, <<"message">>, <<"systemPrompt">> >>
      /\ r.val = payload

C7_Witness ==
  /\ Len(requests) = 1
  /\ script = "test-imessage-conversion.py"
  /\ pc = "in_flight"

C9_FailureExitsNormally ==
  /\ (Terminated /\ PostFailed) =>
        /\ exitCode = 0
        /\ stdout = <<ErrorLine(e.msg)>>
  /\ (Terminated /\ ~e.raised) => exitCode = 0

C9_Witness ==
  /\ Terminated /\ PostFailed
  /\ server.error = "dns"
  /\ exitCode = 0

\* C10: nothing is printed before the POST has completed or failed; a
\* "Response:" line directly follows the "Status Code:" line of the same
\* response; an "Error:" line is the last line of the output.
C10_OutputOrder ==
  /\ pc \in {"start", "in_flight"} => stdout = << >>
  /\ \A i \in DOMAIN stdout :
       /\ IsResponseLine(stdout[i]) =>
            /\ i > 1
            /\ stdout[i - 1] = StatusLine(response.status_code)
            /\ stdout[i] = ResponseLine(response.text)
       /\ IsErrorLine(stdout[i]) => i = Len(stdout)

C10_Witness ==
  /\ Len(stdout) = 2
  /\ IsStatusLine(stdout[1])
  /\ IsResponseLine(stdout[2])
  /\ response.status_code = 404

====
